---- MODULE Spec2Model ----
(***************************************************************************)
(* Credential resolution of src/internal/packager/helm/utils.go:           *)
(* FindAuthForHost reads ~/.git-credentials (credentialParser) and         *)
(* ~/.netrc (netrcParser), concatenates the two record lists and returns   *)
(* the first record whose Path is empty or occurs in the target.           *)
(*                                                                         *)
(* A Go string is modelled as a sequence of one-character strings, so that *)
(* prefix, substring, trimming, splitting and URL parsing are computed     *)
(* character by character as the code and its library calls compute them.  *)
(***************************************************************************)
EXTENDS Integers, Sequences, FiniteSets, TLC

(***************************************************************************)
(* Library string functions used by the code (package strings).            *)
(***************************************************************************)

\* strings.HasPrefix(s, p)
HasPrefix(s, p) ==
    /\ Len(p) <= Len(s)
    /\ SubSeq(s, 1, Len(p)) = p

\* strings.Contains(s, sub): sub occurs in s at some offset (the empty
\* string occurs in every string)
Contains(s, sub) ==
    \E k \in 0..(Len(s) - Len(sub)) : SubSeq(s, k + 1, k + Len(sub)) = sub

\* strings.Index(s, ch) for a one-character ch, 1-based; 0 when absent
IndexOf(s, ch) ==
    IF \E i \in 1..Len(s) : s[i] = ch
    THEN CHOOSE i \in 1..Len(s) : s[i] = ch /\ \A j \in 1..(i - 1) : s[j] # ch
    ELSE 0

\* strings.LastIndex(s, ch) for a one-character ch, 1-based; 0 when absent
LastIndexOf(s, ch) ==
    IF \E i \in 1..Len(s) : s[i] = ch
    THEN CHOOSE i \in 1..Len(s) : s[i] = ch /\ \A j \in (i + 1)..Len(s) : s[j] # ch
    ELSE 0

\* strings.ReplaceAll(s, old, new) for one-character old and new
ReplaceAll(s, old, new) ==
    [i \in 1..Len(s) |-> IF s[i] = old THEN new ELSE s[i]]

\* unicode.IsSpace on the characters a store can hold here
IsSpace(ch) == ch \in {" ", "\t", "\n", "\r"}

\* strings.TrimSpace(s): leading and trailing white space removed
TrimSpace(s) ==
    IF \A i \in 1..Len(s) : IsSpace(s[i])
    THEN << >>
    ELSE LET first == CHOOSE i \in 1..Len(s) :
                          ~IsSpace(s[i]) /\ \A j \in 1..(i - 1) : IsSpace(s[j])
             last  == CHOOSE i \in 1..Len(s) :
                          ~IsSpace(s[i]) /\ \A j \in (i + 1)..Len(s) : IsSpace(s[j])
         IN  SubSeq(s, first, last)

\* strings.Split(s, sep) for a one-character sep: the pieces between the
\* separators, empty pieces included; a string without sep is one piece
RECURSIVE Split(_, _)
Split(s, sep) ==
    LET i == IndexOf(s, sep)
    IN  IF i = 0
        THEN << s >>
        ELSE << SubSeq(s, 1, i - 1) >> \o Split(SubSeq(s, i + 1, Len(s)), sep)

(***************************************************************************)
(* bufio.Scanner with the default split function bufio.ScanLines.          *)
(***************************************************************************)

\* dropCR: a trailing carriage return is removed from a line
DropCR(data) ==
    IF Len(data) > 0 /\ data[Len(data)] = "\r"
    THEN SubSeq(data, 1, Len(data) - 1)
    ELSE data

\* scanner.Scan() on the unread bytes: FALSE at end of input
ScanHasLine(data) == Len(data) > 0

\* scanner.Text() of that Scan, and the bytes left unread after it
ScanLine(data) ==
    LET i == IndexOf(data, "\n")
    IN  IF i > 0
        THEN [text |-> DropCR(SubSeq(data, 1, i - 1)),
              rest |-> SubSeq(data, i + 1, Len(data))]
        ELSE [text |-> DropCR(data), rest |-> << >>]

\* every line a scanner yields from data, in order
RECURSIVE ScanAll(_)
ScanAll(data) ==
    IF ~ScanHasLine(data)
    THEN << >>
    ELSE << ScanLine(data).text >> \o ScanAll(ScanLine(data).rest)

(***************************************************************************)
(* net/url.Parse as credentialParser uses it (line 154): only the error,   *)
(* the host and the user information of the result are read.  The model    *)
(* follows url.Parse, parse, getScheme, parseAuthority, parseHost,         *)
(* validOptionalPort and validUserinfo of the Go standard library on lines *)
(* over UrlAlphabet: no percent escape and no bracketed IPv6 literal       *)
(* occurs in such a line, so unescaping changes nothing.                   *)
(***************************************************************************)

Letters ==
    {"a", "b", "c", "d", "e", "f", "g", "h", "i", "j", "k", "l", "m",
     "n", "o", "p", "q", "r", "s", "t", "u", "v", "w", "x", "y", "z"}

Digits == {"0", "1", "2", "3", "4", "5", "6", "7", "8", "9"}

UrlAlphabet == Letters \cup Digits \cup {":", "/", "@", ".", "?", "#", " ", "\t"}

\* the part of s before the first ch (strings.Cut), all of s when ch is absent
Before(s, ch) ==
    IF IndexOf(s, ch) = 0 THEN s ELSE SubSeq(s, 1, IndexOf(s, ch) - 1)

\* the part of s after the first ch (strings.Cut), empty when ch is absent
After(s, ch) ==
    IF IndexOf(s, ch) = 0 THEN << >> ELSE SubSeq(s, IndexOf(s, ch) + 1, Len(s))

\* getScheme: letters, and after the first character digits, "+", "-", ".",
\* up to a colon; a colon in first place is an error; any other character
\* means the text has no scheme
GetScheme(rawURL) ==
    LET inScheme(i) == \/ rawURL[i] \in Letters
                       \/ (i > 1 /\ rawURL[i] \in Digits \cup {"+", "-", "."})
        stops == {i \in 1..Len(rawURL) : ~inScheme(i)}
    IN  IF stops = {}
        THEN [err |-> FALSE, scheme |-> << >>, rest |-> rawURL]
        ELSE LET i == CHOOSE k \in stops : \A j \in stops : k <= j
             IN  IF rawURL[i] # ":"
                 THEN [err |-> FALSE, scheme |-> << >>, rest |-> rawURL]
                 ELSE IF i = 1
                      THEN [err |-> TRUE, scheme |-> << >>, rest |-> << >>]
                      ELSE [err |-> FALSE,
                            scheme |-> SubSeq(rawURL, 1, i - 1),
                            rest |-> SubSeq(rawURL, i + 1, Len(rawURL))]

\* validOptionalPort: empty, or a colon followed by digits only
ValidOptionalPort(port) ==
    \/ port = << >>
    \/ /\ port[1] = ":"
       /\ \A i \in 2..Len(port) : port[i] \in Digits

\* the characters unescape(host, encodeHost) accepts unescaped
HostChars ==
    Letters \cup Digits \cup
    {"-", "_", ".", "~", "!", "$", "&", "'", "(", ")", "*", "+", ",", ";",
     "=", ":", "[", "]", "<", ">", "\""}

\* parseHost: the text after the last colon must be a port; every character
\* must be one a host may hold
ParseHost(host) ==
    LET i == LastIndexOf(host, ":")
    IN  IF i > 0 /\ ~ValidOptionalPort(SubSeq(host, i, Len(host)))
        THEN [err |-> TRUE, host |-> << >>]
        ELSE IF \E k \in 1..Len(host) : host[k] \notin HostChars
             THEN [err |-> TRUE, host |-> << >>]
             ELSE [err |-> FALSE, host |-> host]

\* validUserinfo
UserinfoChars ==
    Letters \cup Digits \cup
    {"-", ".", "_", ":", "~", "!", "$", "&", "'", "(", ")", "*", "+", ",",
     ";", "=", "%", "@"}

ValidUserinfo(s) == \A i \in 1..Len(s) : s[i] \in UserinfoChars

\* the value url.Parse returns, as far as credentialParser reads it
ParsedURL(host, username, password) ==
    [err |-> FALSE, Host |-> host, Username |-> username, Password |-> password]

ParseError ==
    [err |-> TRUE, Host |-> << >>, Username |-> << >>, Password |-> << >>]

\* parseAuthority: [userinfo "@"] host, split at the last "@"; the user
\* information is split at its first colon
ParseAuthority(authority) ==
    LET i    == LastIndexOf(authority, "@")
        h    == ParseHost(SubSeq(authority, i + 1, Len(authority)))
        info == SubSeq(authority, 1, i - 1)
    IN  IF h.err
        THEN ParseError
        ELSE IF i = 0
             THEN ParsedURL(h.host, << >>, << >>)
             ELSE IF ~ValidUserinfo(info)
                  THEN ParseError
                  ELSE ParsedURL(h.host, Before(info, ":"), After(info, ":"))

\* url.Parse(rawURL)
ParseURL(rawURL) ==
    LET u    == Before(rawURL, "#")
        sch  == GetScheme(u)
        rest == Before(sch.rest, "?")
        auth == Before(SubSeq(rest, 3, Len(rest)), "/")
    IN  IF \E i \in 1..Len(u) : u[i] \in {"\t", "\r", "\n"}
        THEN ParseError \* invalid control character in URL
        ELSE IF sch.err
        THEN ParseError \* missing protocol scheme
        ELSE IF ~HasPrefix(rest, << "/" >>) /\ sch.scheme # << >>
        THEN ParsedURL(<< >>, << >>, << >>) \* opaque: scheme:rest
        ELSE IF ~HasPrefix(rest, << "/" >>) /\ Contains(Before(rest, "/"), << ":" >>)
        THEN ParseError \* first path segment cannot contain colon
        ELSE IF /\ HasPrefix(rest, << "/", "/" >>)
                /\ (sch.scheme # << >> \/ ~HasPrefix(rest, << "/", "/", "/" >>))
        THEN ParseAuthority(auth)
        ELSE ParsedURL(<< >>, << >>, << >>) \* a path only

(***************************************************************************)
(* The data model: Credential (lines 101-104), with Auth.Username and      *)
(* Auth.Password flattened, and the map[string]string of netrcParser.      *)
(***************************************************************************)

Credential(path, username, password) ==
    [Path |-> path, Username |-> username, Password |-> password]

\* var matchedCred Credential: the zero value
ZeroCredential == Credential(<< >>, << >>, << >>)

\* var activeMachine map[string]string: the nil map
NilMap == [nil |-> TRUE, kv |-> {}]

\* map[string]string{}: an empty map that is not nil
EmptyMap == [nil |-> FALSE, kv |-> {}]

\* m[k] = v on a map that is not nil
MapSet(m, k, v) ==
    [nil |-> FALSE, kv |-> {p \in m.kv : p[1] # k} \cup {<< k, v >>}]

\* m[k]: the value stored under k, the empty string when there is none
MapGet(m, k) ==
    IF \E p \in m.kv : p[1] = k
    THEN (CHOOSE p \in m.kv : p[1] = k)[2]
    ELSE << >>

(***************************************************************************)
(* The netrc keywords of the switch in netrcParser.                        *)
(***************************************************************************)

Machine ==
    << "m", "a", "c", "h", "i", "n", "e" >>

Macdef ==
    << "m", "a", "c", "d", "e", "f" >>

Login ==
    << "l", "o", "g", "i", "n" >>

Password ==
    << "p", "a", "s", "s", "w", "o", "r", "d" >>

Account ==
    << "a", "c", "c", "o", "u", "n", "t" >>

Default ==
    << "d", "e", "f", "a", "u", "l", "t" >>

(***************************************************************************)
(* credentialParser (lines 142-170).                                       *)
(***************************************************************************)

\* credentialLine without the test gitUrl.Host == "" of line 155
credentialLineNoHostTest(credentials, line) ==
    LET gitUrl == ParseURL(line)
    IN  IF gitUrl.err
        THEN credentials
        ELSE Append(credentials,
                    Credential(gitUrl.Host, gitUrl.Username, gitUrl.Password))

\* the body of the scan loop (lines 154-166) for one line: a line that does
\* not parse, or parses without a host, is passed over (continue); any
\* other line appends one record
credentialLine(credentials, line) ==
    LET gitUrl == ParseURL(line)
    IN  IF gitUrl.err \/ gitUrl.Host = << >>
        THEN credentials
        ELSE Append(credentials,
                    Credential(gitUrl.Host, gitUrl.Username, gitUrl.Password))

(***************************************************************************)
(* netrcParser (lines 173-249) and appendNetrcMachine (lines 251-261).     *)
(* The parser's locals are the fields activeMacro, activeCommand,          *)
(* activeMachine and credentials of a record st; outcome tells how the     *)
(* token loop goes on: "next" token, "break" out of the line, or "panic".  *)
(***************************************************************************)

\* appendNetrcMachine that drops a record whose machine entry is missing
\* or empty
appendNetrcMachineWithHost(machine, credentials) ==
    IF MapGet(machine, Machine) = << >>
    THEN credentials
    ELSE Append(credentials,
                Credential(MapGet(machine, Machine),
                           MapGet(machine, Login),
                           MapGet(machine, Password)))

appendNetrcMachine(machine, credentials) ==
    Append(credentials,
           Credential(MapGet(machine, Machine),
                      MapGet(machine, Login),
                      MapGet(machine, Password)))

\* the locals as declared at lines 174 and 185-187
NetrcLocals ==
    [activeMacro |-> FALSE, activeCommand |-> << >>, activeMachine |-> NilMap,
     credentials |-> << >>, outcome |-> "next"]

\* AssignValue with the flushed records sharing the in-progress record: a
\* login value is written to the last flushed record too
AssignValueShared(st, token) ==
    IF st.activeMachine.nil
    THEN [st EXCEPT !.outcome = "panic"]
    ELSE [st EXCEPT !.activeMachine = MapSet(@, st.activeCommand, token),
                    !.activeCommand = << >>,
                    !.credentials =
                        IF @ # << >> /\ st.activeCommand = Login
                        THEN [@ EXCEPT ![Len(@)].Username = token]
                        ELSE @]

\* lines 207-210: the token is the value of the pending command; an
\* assignment to an entry of the nil map panics
AssignValue(st, token) ==
    IF st.activeMachine.nil
    THEN [st EXCEPT !.outcome = "panic"]
    ELSE [st EXCEPT !.activeMachine = MapSet(@, st.activeCommand, token),
                    !.activeCommand = << >>]

\* FlushMachine without the test for nil: a record is appended always
FlushMachineAlways(st) ==
    [st EXCEPT !.credentials = appendNetrcMachine(st.activeMachine, @)]

\* lines 220-222, 234-236 and 244-246: append the last machine, if one exists
FlushMachine(st) ==
    IF st.activeMachine.nil
    THEN st
    ELSE [st EXCEPT !.credentials = appendNetrcMachine(st.activeMachine, @)]

\* case "machine" without lines 220-222: the last machine is dropped
DispatchMachineNoFlush(st, token) ==
    [st EXCEPT !.activeMachine = EmptyMap, !.activeCommand = token]

\* case "machine" (lines 218-224)
DispatchMachine(st, token) ==
    [FlushMachine(st) EXCEPT !.activeMachine = EmptyMap,
                             !.activeCommand = token]

\* case "macdef" (lines 225-228)
DispatchMacdef(st, token) ==
    [st EXCEPT !.activeMacro = TRUE, !.activeCommand = token]

\* case "login", "password" alone: account is a token like any other and
\* waits for no value
DispatchCommandNoAccount(st, token) ==
    IF token = Account THEN st ELSE [st EXCEPT !.activeCommand = token]

\* case "login", "password", "account" (lines 229-231)
DispatchCommand(st, token) ==
    [st EXCEPT !.activeCommand = token]

\* case "default" handled like case "machine": the next token is taken as
\* the host
DispatchDefaultAsMachine(st) ==
    [FlushMachine(st) EXCEPT !.activeMachine = MapSet(EmptyMap, Machine, << >>),
                             !.activeCommand = Machine]

\* case "default" (lines 232-237)
DispatchDefault(st) ==
    [FlushMachine(st) EXCEPT !.activeMachine = MapSet(EmptyMap, Machine, << >>)]

\* the switch of lines 217-238; a token that is no keyword changes nothing
DispatchToken(st, token) ==
    IF token = Machine THEN DispatchMachine(st, token)
    ELSE IF token = Macdef THEN DispatchMacdef(st, token)
    ELSE IF token \in {Login, Password, Account} THEN DispatchCommand(st, token)
    ELSE IF token = Default THEN DispatchDefault(st)
    ELSE st

\* the body of the token loop with the comment test of lines 211-215 before
\* the pending-value test of lines 207-210
TokenStepCommentFirst(st, token) ==
    IF HasPrefix(token, << "#" >>)
    THEN [st EXCEPT !.outcome = "break"]
    ELSE IF st.activeCommand # << >>
         THEN AssignValue(st, token)
         ELSE DispatchToken(st, token)

\* the body of the token loop (lines 207-239) for one token
TokenStep(st, token) ==
    IF st.activeCommand # << >>
    THEN AssignValue(st, token)
    ELSE IF HasPrefix(token, << "#" >>)
         THEN [st EXCEPT !.outcome = "break"]
         ELSE DispatchToken(st, token)

\* lines 201-204: the tokens of a line
Tokenize(line) == Split(TrimSpace(ReplaceAll(line, "\t", " ")), " ")

\* lines 193-198: a line read while a macro is active
MacroLine(st, line) ==
    IF line = << >> THEN [st EXCEPT !.activeMacro = FALSE] ELSE st

(***************************************************************************)
(* The matching loop of FindAuthForHost (lines 125-138).                   *)
(***************************************************************************)

\* line 123 with the lists in the other order
combineNetrcFirst(gitCredentials, netrcCreds) == netrcCreds \o gitCredentials

\* line 123: creds := append(gitCreds, netrcCreds...)
combine(gitCredentials, netrcCreds) == gitCredentials \o netrcCreds

\* line 131
hasPath(baseUrl, cred) == Contains(baseUrl, cred.Path) \/ cred.Path = << >>

\* matchLoop without the break of line 134: the last match wins
RECURSIVE matchLoopNoBreak(_, _)
matchLoopNoBreak(baseUrl, creds) ==
    IF creds = << >>
    THEN ZeroCredential
    ELSE IF hasPath(baseUrl, Head(creds))
            /\ \A i \in 2..Len(creds) : ~hasPath(baseUrl, creds[i])
         THEN Head(creds)
         ELSE matchLoopNoBreak(baseUrl, Tail(creds))

\* matchLoop with matchedCred assigned before the test of line 132: the
\* last record looked at is returned when none matches
RECURSIVE matchLoopAssignFirst(_, _)
matchLoopAssignFirst(baseUrl, creds) ==
    IF creds = << >>
    THEN ZeroCredential
    ELSE IF hasPath(baseUrl, Head(creds)) \/ Len(creds) = 1
         THEN Head(creds)
         ELSE matchLoopAssignFirst(baseUrl, Tail(creds))

RECURSIVE matchLoop(_, _)
matchLoop(baseUrl, creds) ==
    IF creds = << >>
    THEN ZeroCredential
    ELSE IF hasPath(baseUrl, Head(creds))
         THEN Head(creds)
         ELSE matchLoop(baseUrl, Tail(creds))

(***************************************************************************)
(* The inputs: the two stores and the target.  A store is absent (os.Open  *)
(* fails and returns a nil file) or holds text; text is built from lines   *)
(* of a vocabulary, each ended by a line break, or written out in full.    *)
(***************************************************************************)

\* most lines of a generated credentials-list store
MaxCredLines == 3

\* most lines of a generated netrc store
MaxNetrcLines == 3

\* most lines of either store where both stores and the target vary
MaxMatchLines == 2

AbsentStore == [exists |-> FALSE, data |-> << >>]

StoreOf(data) == [exists |-> TRUE, data |-> data]

\* the lines, each followed by a line break, as one text
RECURSIVE JoinLines(_)
JoinLines(lines) ==
    IF lines = << >>
    THEN << >>
    ELSE Head(lines) \o << "\n" >> \o JoinLines(Tail(lines))

\* the stores of at most n lines of a vocabulary, the empty store included
StoresOf(vocabulary, n) ==
    {StoreOf(JoinLines(ls)) : ls \in UNION {[1..k -> vocabulary] : k \in 0..n}}

\* lines of a credentials-list store: URLs with and without user
\* information, and lines that have no host or do not parse
CredVocabulary ==
    {\* https://al:s3@foo.com/p
     << "h", "t", "t", "p", "s", ":", "/", "/", "a", "l", ":", "s", "3",
        "@", "f", "o", "o", ".", "c", "o", "m", "/", "p" >>,
     \* http://ex.io
     << "h", "t", "t", "p", ":", "/", "/", "e", "x", ".", "i", "o" >>,
     \* //ex.io
     << "/", "/", "e", "x", ".", "i", "o" >>,
     \* https://bob@foo.com:80
     << "h", "t", "t", "p", "s", ":", "/", "/", "b", "o", "b", "@", "f",
        "o", "o", ".", "c", "o", "m", ":", "8", "0" >>,
     \* bare
     << "b", "a", "r", "e" >>,
     \* (the empty line)
     << >>,
     \* :x
     << ":", "x" >>,
     \* foo.com:80/p
     << "f", "o", "o", ".", "c", "o", "m", ":", "8", "0", "/", "p" >>,
     \* http://a b
     << "h", "t", "t", "p", ":", "/", "/", "a", " ", "b" >>}

\* lines of a credentials-list store where both stores vary
MatchCredVocabulary ==
    {\* https://al:s3@foo.com/p
     << "h", "t", "t", "p", "s", ":", "/", "/", "a", "l", ":", "s", "3",
        "@", "f", "o", "o", ".", "c", "o", "m", "/", "p" >>,
     \* http://ex.io
     << "h", "t", "t", "p", ":", "/", "/", "e", "x", ".", "i", "o" >>,
     \* bare
     << "b", "a", "r", "e" >>}

\* lines of a netrc store
NetrcVocabulary ==
    {\* machine foo.com
     << "m", "a", "c", "h", "i", "n", "e", " ", "f", "o", "o", ".", "c",
        "o", "m" >>,
     \* login al
     << "l", "o", "g", "i", "n", " ", "a", "l" >>,
     \* password s3
     << "p", "a", "s", "s", "w", "o", "r", "d", " ", "s", "3" >>,
     \* default
     << "d", "e", "f", "a", "u", "l", "t" >>,
     \* macdef m
     << "m", "a", "c", "d", "e", "f", " ", "m" >>,
     \* (the empty line)
     << >>,
     \* machine
     << "m", "a", "c", "h", "i", "n", "e" >>,
     \* macdef
     << "m", "a", "c", "d", "e", "f" >>}

\* lines of a netrc store where both stores vary
MatchNetrcVocabulary ==
    {\* machine foo.com login nb password np
     << "m", "a", "c", "h", "i", "n", "e", " ", "f", "o", "o", ".", "c",
        "o", "m", " ", "l", "o", "g", "i", "n", " ", "n", "b", " ", "p",
        "a", "s", "s", "w", "o", "r", "d", " ", "n", "p" >>,
     \* default login an
     << "d", "e", "f", "a", "u", "l", "t", " ", "l", "o", "g", "i", "n",
        " ", "a", "n" >>,
     \* machine ex.io
     << "m", "a", "c", "h", "i", "n", "e", " ", "e", "x", ".", "i", "o" >>,
     \* login x
     << "l", "o", "g", "i", "n", " ", "x" >>}

\* netrc texts written out in full
NetrcScenarios ==
    {\* machine foo.com\nlogin al\npassword s3\nmacdef m\nls\ncd x\n\nmachine ex.io\nlogin bob\npassword pw\n
     << "m", "a", "c", "h", "i", "n", "e", " ", "f", "o", "o", ".", "c",
        "o", "m", "\n", "l", "o", "g", "i", "n", " ", "a", "l", "\n", "p",
        "a", "s", "s", "w", "o", "r", "d", " ", "s", "3", "\n", "m", "a",
        "c", "d", "e", "f", " ", "m", "\n", "l", "s", "\n", "c", "d", " ",
        "x", "\n", "\n", "m", "a", "c", "h", "i", "n", "e", " ", "e", "x",
        ".", "i", "o", "\n", "l", "o", "g", "i", "n", " ", "b", "o", "b",
        "\n", "p", "a", "s", "s", "w", "o", "r", "d", " ", "p", "w", "\n" >>,
     \* machine foo.com\nmacdef\nls\n\nmachine ex.io\nlogin bob\n
     << "m", "a", "c", "h", "i", "n", "e", " ", "f", "o", "o", ".", "c",
        "o", "m", "\n", "m", "a", "c", "d", "e", "f", "\n", "l", "s",
        "\n", "\n", "m", "a", "c", "h", "i", "n", "e", " ", "e", "x", ".",
        "i", "o", "\n", "l", "o", "g", "i", "n", " ", "b", "o", "b", "\n" >>,
     \* default login an password an
     << "d", "e", "f", "a", "u", "l", "t", " ", "l", "o", "g", "i", "n",
        " ", "a", "n", " ", "p", "a", "s", "s", "w", "o", "r", "d", " ",
        "a", "n" >>,
     \* machine foo.com login machine ex.io login bob\n
     << "m", "a", "c", "h", "i", "n", "e", " ", "f", "o", "o", ".", "c",
        "o", "m", " ", "l", "o", "g", "i", "n", " ", "m", "a", "c", "h",
        "i", "n", "e", " ", "e", "x", ".", "i", "o", " ", "l", "o", "g",
        "i", "n", " ", "b", "o", "b", "\n" >>,
     \* machine foo.com password default login an\n
     << "m", "a", "c", "h", "i", "n", "e", " ", "f", "o", "o", ".", "c",
        "o", "m", " ", "p", "a", "s", "s", "w", "o", "r", "d", " ", "d",
        "e", "f", "a", "u", "l", "t", " ", "l", "o", "g", "i", "n", " ",
        "a", "n", "\n" >>,
     \* machine foo.com macdef m default\nlogin x\n
     << "m", "a", "c", "h", "i", "n", "e", " ", "f", "o", "o", ".", "c",
        "o", "m", " ", "m", "a", "c", "d", "e", "f", " ", "m", " ", "d",
        "e", "f", "a", "u", "l", "t", "\n", "l", "o", "g", "i", "n", " ",
        "x", "\n" >>}

\* netrc texts written out in full: tokens apart by several spaces, tabs
\* and line breaks; comments; a machine keyword at the end of input;
\* account keywords and tokens that are no keyword
NetrcLayouts ==
    {\* machine  foo.com login al\n
     << "m", "a", "c", "h", "i", "n", "e", " ", " ", "f", "o", "o", ".",
        "c", "o", "m", " ", "l", "o", "g", "i", "n", " ", "a", "l", "\n" >>,
     \* machine\tfoo.com\tlogin\tal\n
     << "m", "a", "c", "h", "i", "n", "e", "\t", "f", "o", "o", ".", "c",
        "o", "m", "\t", "l", "o", "g", "i", "n", "\t", "a", "l", "\n" >>,
     \* machine foo.com login \tal\n
     << "m", "a", "c", "h", "i", "n", "e", " ", "f", "o", "o", ".", "c",
        "o", "m", " ", "l", "o", "g", "i", "n", " ", "\t", "a", "l", "\n" >>,
     \* machine foo.com login\n\nal\n
     << "m", "a", "c", "h", "i", "n", "e", " ", "f", "o", "o", ".", "c",
        "o", "m", " ", "l", "o", "g", "i", "n", "\n", "\n", "a", "l", "\n" >>,
     \*   machine foo.com\n\n\tlogin al  \npassword s3
     << " ", " ", "m", "a", "c", "h", "i", "n", "e", " ", "f", "o", "o",
        ".", "c", "o", "m", "\n", "\n", "\t", "l", "o", "g", "i", "n",
        " ", "a", "l", " ", " ", "\n", "p", "a", "s", "s", "w", "o", "r",
        "d", " ", "s", "3" >>,
     \* machine foo.com login #al password s3\n
     << "m", "a", "c", "h", "i", "n", "e", " ", "f", "o", "o", ".", "c",
        "o", "m", " ", "l", "o", "g", "i", "n", " ", "#", "a", "l", " ",
        "p", "a", "s", "s", "w", "o", "r", "d", " ", "s", "3", "\n" >>,
     \* machine foo.com password\n#x login al\n
     << "m", "a", "c", "h", "i", "n", "e", " ", "f", "o", "o", ".", "c",
        "o", "m", " ", "p", "a", "s", "s", "w", "o", "r", "d", "\n", "#",
        "x", " ", "l", "o", "g", "i", "n", " ", "a", "l", "\n" >>,
     \* machine foo.com # login al\npassword s3 #c machine ex.io\n
     << "m", "a", "c", "h", "i", "n", "e", " ", "f", "o", "o", ".", "c",
        "o", "m", " ", "#", " ", "l", "o", "g", "i", "n", " ", "a", "l",
        "\n", "p", "a", "s", "s", "w", "o", "r", "d", " ", "s", "3", " ",
        "#", "c", " ", "m", "a", "c", "h", "i", "n", "e", " ", "e", "x",
        ".", "i", "o", "\n" >>,
     \* machine ex.io login bob\nmachine
     << "m", "a", "c", "h", "i", "n", "e", " ", "e", "x", ".", "i", "o",
        " ", "l", "o", "g", "i", "n", " ", "b", "o", "b", "\n", "m", "a",
        "c", "h", "i", "n", "e" >>,
     \* machine foo.com account acme login al password s3\n
     << "m", "a", "c", "h", "i", "n", "e", " ", "f", "o", "o", ".", "c",
        "o", "m", " ", "a", "c", "c", "o", "u", "n", "t", " ", "a", "c",
        "m", "e", " ", "l", "o", "g", "i", "n", " ", "a", "l", " ", "p",
        "a", "s", "s", "w", "o", "r", "d", " ", "s", "3", "\n" >>,
     \* machine foo.com login al extra password s3\n
     << "m", "a", "c", "h", "i", "n", "e", " ", "f", "o", "o", ".", "c",
        "o", "m", " ", "l", "o", "g", "i", "n", " ", "a", "l", " ", "e",
        "x", "t", "r", "a", " ", "p", "a", "s", "s", "w", "o", "r", "d",
        " ", "s", "3", "\n" >>,
     \* machine ex.io login bob account\nacme password pw\nmachine foo.com account #1 login al\n
     << "m", "a", "c", "h", "i", "n", "e", " ", "e", "x", ".", "i", "o",
        " ", "l", "o", "g", "i", "n", " ", "b", "o", "b", " ", "a", "c",
        "c", "o", "u", "n", "t", "\n", "a", "c", "m", "e", " ", "p", "a",
        "s", "s", "w", "o", "r", "d", " ", "p", "w", "\n", "m", "a", "c",
        "h", "i", "n", "e", " ", "f", "o", "o", ".", "c", "o", "m", " ",
        "a", "c", "c", "o", "u", "n", "t", " ", "#", "1", " ", "l", "o",
        "g", "i", "n", " ", "a", "l", "\n" >>}

\* targets (baseUrl): two hosts the stores name, one they do not
TargetFoo ==
    << "h", "t", "t", "p", "s", ":", "/", "/", "f", "o", "o", ".", "c",
       "o", "m", "/", "r" >>

TargetEx ==
    << "h", "t", "t", "p", "s", ":", "/", "/", "e", "x", ".", "i", "o" >>

TargetNone ==
    << "h", "t", "t", "p", "s", ":", "/", "/", "z", "z", ".", "o", "r",
       "g" >>

Targets == {TargetFoo, TargetEx, TargetNone}

\* the inputs of a resolution: both stores and the target varying over
\* short stores; the netrc store varying over longer ones; the
\* credentials-list store varying over longer ones; the netrc layouts with
\* every target
Inputs ==
    {[cred |-> c, netrc |-> n, url |-> t] :
        c \in StoresOf(MatchCredVocabulary, MaxMatchLines) \cup {AbsentStore},
        n \in StoresOf(MatchNetrcVocabulary, MaxMatchLines) \cup {AbsentStore},
        t \in Targets}
    \cup
    {[cred |-> AbsentStore, netrc |-> n, url |-> TargetFoo] :
        n \in StoresOf(NetrcVocabulary, MaxNetrcLines)
              \cup {StoreOf(d) : d \in NetrcScenarios}}
    \cup
    {[cred |-> c, netrc |-> AbsentStore, url |-> TargetFoo] :
        c \in StoresOf(CredVocabulary, MaxCredLines)}
    \cup
    {[cred |-> AbsentStore, netrc |-> StoreOf(d), url |-> t] :
        d \in NetrcLayouts, t \in Targets}

\* most lines of either generated store where two calls are made
MaxCallLines == 1

\* the inputs of two calls against the same stores: both stores and the
\* target varying over short stores, and the netrc texts written out in
\* full
CallInputs ==
    {[cred |-> c, netrc |-> n, url |-> t] :
        c \in StoresOf(MatchCredVocabulary, MaxCallLines) \cup {AbsentStore},
        n \in StoresOf(MatchNetrcVocabulary, MaxCallLines) \cup {AbsentStore},
        t \in Targets}
    \cup
    {[cred |-> AbsentStore, netrc |-> StoreOf(d), url |-> TargetFoo] :
        d \in NetrcScenarios}

(***************************************************************************)
(* The state.  The stores are the two files on disk, which no call         *)
(* writes.  Everything else is local to one call of FindAuthForHost and is *)
(* a function of the call.                                                 *)
(***************************************************************************)

Calls == {1, 2}

VARIABLES
    credentialsStore, \* ~/.git-credentials
    netrcStore,       \* ~/.netrc
    baseUrl,          \* the argument of the call
    pc,               \* where the call is
    credentialsFile,  \* the file of line 113: handle, unread bytes, Close calls
    netrcFile,        \* the file of line 119
    gitCreds,         \* credentials of credentialParser, then gitCreds
    netrc,            \* the locals of netrcParser; netrc.credentials is netrcCreds
    tokens,           \* the tokens of the current netrc line not yet looped over
    matchedCred,      \* the result
    dispatched        \* history: the machine and default keywords dispatched

vars ==
    << credentialsStore, netrcStore, baseUrl, pc, credentialsFile, netrcFile,
       gitCreds, netrc, tokens, matchedCred, dispatched >>

\* a file not yet opened
NoFile == [handle |-> "unopened", unread |-> << >>, closes |-> 0]

\* os.Open: a file that does not exist gives the nil file (the error is dropped)
Open(store) ==
    IF store.exists
    THEN [handle |-> "open", unread |-> store.data, closes |-> 0]
    ELSE [handle |-> "nil", unread |-> << >>, closes |-> 0]

\* scanner.Scan(): reading the nil file fails, which ends the scan
CanScan(file) == file.handle = "open" /\ ScanHasLine(file.unread)

\* Close that counts the call and leaves the handle as it is
CloseNoRelease(file) == [file EXCEPT !.closes = @ + 1]

\* the deferred file.Close() (lines 145-150, 176-181); on the nil file it
\* returns an error, which is logged
Close(file) ==
    [file EXCEPT !.handle = IF @ = "nil" THEN "nil" ELSE "closed",
                 !.closes = @ + 1]

\* the state of the given calls before line 108, every other call idle
InitWith(input, started) ==
    /\ credentialsStore = input.cred
    /\ netrcStore = input.netrc
    /\ baseUrl = [c \in Calls |-> input.url]
    /\ pc = [c \in Calls |-> IF c \in started THEN "start" ELSE "idle"]
    /\ credentialsFile = [c \in Calls |-> NoFile]
    /\ netrcFile = [c \in Calls |-> NoFile]
    /\ gitCreds = [c \in Calls |-> << >>]
    /\ netrc = [c \in Calls |-> NetrcLocals]
    /\ tokens = [c \in Calls |-> << >>]
    /\ matchedCred = [c \in Calls |-> ZeroCredential]
    /\ dispatched = [c \in Calls |-> << >>]

\* one call of FindAuthForHost
Init == \E input \in Inputs : InitWith(input, {1})

\* lines 108-114: open ~/.git-credentials and enter credentialParser
OpenCredentials(c) ==
    /\ pc[c] = "start"
    /\ credentialsFile' = [credentialsFile EXCEPT ![c] = Open(credentialsStore)]
    /\ gitCreds' = [gitCreds EXCEPT ![c] = << >>]
    /\ pc' = [pc EXCEPT ![c] = "credentialParser"]
    /\ UNCHANGED << credentialsStore, netrcStore, baseUrl, netrcFile, netrc,
                    tokens, matchedCred, dispatched >>

\* lines 153-167: one iteration of the scan loop of credentialParser
CredentialScan(c) ==
    /\ pc[c] = "credentialParser"
    /\ CanScan(credentialsFile[c])
    /\ LET l == ScanLine(credentialsFile[c].unread)
       IN  /\ credentialsFile' = [credentialsFile EXCEPT ![c].unread = l.rest]
           /\ gitCreds' = [gitCreds EXCEPT ![c] = credentialLine(@, l.text)]
    /\ UNCHANGED << credentialsStore, netrcStore, baseUrl, pc, netrcFile, netrc,
                    tokens, matchedCred, dispatched >>

\* lines 145-150, 169: the scan is over; the file is closed, the records returned
CredentialReturn(c) ==
    /\ pc[c] = "credentialParser"
    /\ ~CanScan(credentialsFile[c])
    /\ credentialsFile' = [credentialsFile EXCEPT ![c] = Close(@)]
    /\ pc' = [pc EXCEPT ![c] = "openNetrc"]
    /\ UNCHANGED << credentialsStore, netrcStore, baseUrl, netrcFile, gitCreds,
                    netrc, tokens, matchedCred, dispatched >>

\* OpenNetrc with the locals of netrcParser kept between calls: a call made
\* after another has returned starts with the locals that call left
OpenNetrcKeepsLocals(c) ==
    /\ pc[c] = "openNetrc"
    /\ netrcFile' = [netrcFile EXCEPT ![c] = Open(netrcStore)]
    /\ netrc' = [netrc EXCEPT ![c] =
                    IF \E d \in Calls : pc[d] = "done"
                    THEN netrc[CHOOSE d \in Calls : pc[d] = "done"]
                    ELSE NetrcLocals]
    /\ tokens' = [tokens EXCEPT ![c] = << >>]
    /\ dispatched' = [dispatched EXCEPT ![c] = << >>]
    /\ pc' = [pc EXCEPT ![c] = "netrcParser"]
    /\ UNCHANGED << credentialsStore, netrcStore, baseUrl, credentialsFile,
                    gitCreds, matchedCred >>

\* lines 117-120, 174-187: open ~/.netrc and enter netrcParser
OpenNetrc(c) ==
    /\ pc[c] = "openNetrc"
    /\ netrcFile' = [netrcFile EXCEPT ![c] = Open(netrcStore)]
    /\ netrc' = [netrc EXCEPT ![c] = NetrcLocals]
    /\ tokens' = [tokens EXCEPT ![c] = << >>]
    /\ dispatched' = [dispatched EXCEPT ![c] = << >>]
    /\ pc' = [pc EXCEPT ![c] = "netrcParser"]
    /\ UNCHANGED << credentialsStore, netrcStore, baseUrl, credentialsFile,
                    gitCreds, matchedCred >>

\* lines 189-198: a line read while a macro is active is not tokenized
NetrcMacroLine(c) ==
    /\ pc[c] = "netrcParser"
    /\ CanScan(netrcFile[c])
    /\ netrc[c].activeMacro
    /\ LET l == ScanLine(netrcFile[c].unread)
       IN  /\ netrcFile' = [netrcFile EXCEPT ![c].unread = l.rest]
           /\ netrc' = [netrc EXCEPT ![c] = MacroLine(@, l.text)]
    /\ UNCHANGED << credentialsStore, netrcStore, baseUrl, pc, credentialsFile,
                    gitCreds, tokens, matchedCred, dispatched >>

\* NetrcScanLine on one open file shared by the calls: a line read by one
\* call is read past for every call
NetrcScanLineSharedOffset(c) ==
    /\ pc[c] = "netrcParser"
    /\ CanScan(netrcFile[c])
    /\ ~netrc[c].activeMacro
    /\ LET l == ScanLine(netrcFile[c].unread)
       IN  /\ netrcFile' = [d \in Calls |->
                               IF netrcFile[d].handle = "open"
                               THEN [netrcFile[d] EXCEPT !.unread = l.rest]
                               ELSE netrcFile[d]]
           /\ tokens' = [tokens EXCEPT ![c] = Tokenize(l.text)]
    /\ pc' = [pc EXCEPT ![c] = "netrcTokens"]
    /\ UNCHANGED << credentialsStore, netrcStore, baseUrl, credentialsFile,
                    gitCreds, netrc, matchedCred, dispatched >>

\* lines 189-204: any other line is read and split into its tokens
NetrcScanLine(c) ==
    /\ pc[c] = "netrcParser"
    /\ CanScan(netrcFile[c])
    /\ ~netrc[c].activeMacro
    /\ LET l == ScanLine(netrcFile[c].unread)
       IN  /\ netrcFile' = [netrcFile EXCEPT ![c].unread = l.rest]
           /\ tokens' = [tokens EXCEPT ![c] = Tokenize(l.text)]
    /\ pc' = [pc EXCEPT ![c] = "netrcTokens"]
    /\ UNCHANGED << credentialsStore, netrcStore, baseUrl, credentialsFile,
                    gitCreds, netrc, matchedCred, dispatched >>

\* the token at the head of the loop is dispatched as machine or default
IsDispatch(st, token) ==
    /\ st.activeCommand = << >>
    /\ ~HasPrefix(token, << "#" >>)
    /\ token \in {Machine, Default}

\* lines 206-240: one iteration of the token loop that does not panic; a
\* comment ends the line, and so does its last token
NetrcToken(c) ==
    /\ pc[c] = "netrcTokens"
    /\ LET token == Head(tokens[c])
           st    == TokenStep(netrc[c], token)
           left  == IF st.outcome = "break" THEN << >> ELSE Tail(tokens[c])
       IN  /\ st.outcome # "panic"
           /\ netrc' = [netrc EXCEPT ![c] = [st EXCEPT !.outcome = "next"]]
           /\ tokens' = [tokens EXCEPT ![c] = left]
           /\ pc' = [pc EXCEPT ![c] =
                        IF left = << >> THEN "netrcParser" ELSE "netrcTokens"]
           /\ dispatched' = [dispatched EXCEPT ![c] =
                        IF IsDispatch(netrc[c], token) THEN Append(@, token) ELSE @]
    /\ UNCHANGED << credentialsStore, netrcStore, baseUrl, credentialsFile,
                    netrcFile, gitCreds, matchedCred >>

\* line 209 on the nil map: the call panics; the deferred Close runs and
\* FindAuthForHost does not return
NetrcPanic(c) ==
    /\ pc[c] = "netrcTokens"
    /\ TokenStep(netrc[c], Head(tokens[c])).outcome = "panic"
    /\ netrcFile' = [netrcFile EXCEPT ![c] = Close(@)]
    /\ pc' = [pc EXCEPT ![c] = "panic"]
    /\ UNCHANGED << credentialsStore, netrcStore, baseUrl, credentialsFile,
                    gitCreds, netrc, tokens, matchedCred, dispatched >>

\* lines 243-248, 176-181: end of input; the last machine is appended, the
\* file is closed, the records returned
NetrcReturn(c) ==
    /\ pc[c] = "netrcParser"
    /\ ~CanScan(netrcFile[c])
    /\ netrc' = [netrc EXCEPT ![c] = FlushMachine(@)]
    /\ netrcFile' = [netrcFile EXCEPT ![c] = Close(@)]
    /\ pc' = [pc EXCEPT ![c] = "match"]
    /\ UNCHANGED << credentialsStore, netrcStore, baseUrl, credentialsFile,
                    gitCreds, tokens, matchedCred, dispatched >>

\* lines 122-138: the two lists are joined and the first match returned
FindAuthForHost(c) ==
    /\ pc[c] = "match"
    /\ matchedCred' = [matchedCred EXCEPT ![c] =
                          matchLoop(baseUrl[c],
                                    combine(gitCreds[c], netrc[c].credentials))]
    /\ pc' = [pc EXCEPT ![c] = "done"]
    /\ UNCHANGED << credentialsStore, netrcStore, baseUrl, credentialsFile,
                    netrcFile, gitCreds, netrc, tokens, dispatched >>

Next ==
    \E c \in Calls :
        \/ OpenCredentials(c)
        \/ CredentialScan(c)
        \/ CredentialReturn(c)
        \/ OpenNetrc(c)
        \/ NetrcMacroLine(c)
        \/ NetrcScanLine(c)
        \/ NetrcToken(c)
        \/ NetrcPanic(c)
        \/ NetrcReturn(c)
        \/ FindAuthForHost(c)

Spec == Init /\ [][Next]_vars

\* line 107 again: the caller calls FindAuthForHost a second time, with the
\* same target, after the first call has returned
SecondCall ==
    /\ pc[1] = "done"
    /\ pc[2] = "idle"
    /\ pc' = [pc EXCEPT ![2] = "start"]
    /\ UNCHANGED << credentialsStore, netrcStore, baseUrl, credentialsFile,
                    netrcFile, gitCreds, netrc, tokens, matchedCred,
                    dispatched >>

InitSuccessive == \E input \in CallInputs : InitWith(input, {1})

NextSuccessive == Next \/ SecondCall

\* two calls, one after the other
SpecSuccessive == InitSuccessive /\ [][NextSuccessive]_vars

\* one call alone, or two calls at once
InitConcurrent ==
    \E input \in CallInputs, started \in {{1}, {1, 2}} : InitWith(input, started)

\* one call alone, or two calls whose steps interleave in any order
SpecConcurrent == InitConcurrent /\ [][Next]_vars

(***************************************************************************)
(* The two parsers and the resolution as functions of the stores and the   *)
(* target: the loops of the code, run to their end.                        *)
(***************************************************************************)

\* lines 153-167: the scan loop of credentialParser over the unread text
RECURSIVE credentialScanLoop(_, _)
credentialScanLoop(credentials, data) ==
    IF ~ScanHasLine(data)
    THEN credentials
    ELSE credentialScanLoop(credentialLine(credentials, ScanLine(data).text),
                            ScanLine(data).rest)

\* lines 142-170: the nil file gives no line
credentialParser(store) ==
    IF store.exists THEN credentialScanLoop(<< >>, store.data) ELSE << >>

\* lines 206-240: the token loop over the tokens of a line, left at a
\* comment or a panic
RECURSIVE tokenLoop(_, _)
tokenLoop(st, ts) ==
    IF ts = << >> \/ st.outcome # "next"
    THEN st
    ELSE tokenLoop(TokenStep(st, Head(ts)), Tail(ts))

\* lines 189-246: the scan loop of netrcParser over the unread text, and
\* the flush at the end of input
RECURSIVE netrcScanLoop(_, _)
netrcScanLoop(st, data) ==
    IF ~ScanHasLine(data)
    THEN FlushMachine(st)
    ELSE LET l == ScanLine(data)
         IN  IF st.activeMacro
             THEN netrcScanLoop(MacroLine(st, l.text), l.rest)
             ELSE LET after == tokenLoop(st, Tokenize(l.text))
                  IN  IF after.outcome = "panic"
                      THEN after
                      ELSE netrcScanLoop([after EXCEPT !.outcome = "next"],
                                         l.rest)

\* lines 173-249: the locals when netrcParser is left; outcome is "panic"
\* when it is left by the panic of line 209
netrcParser(store) ==
    IF store.exists THEN netrcScanLoop(NetrcLocals, store.data) ELSE NetrcLocals

\* lines 107-139: whether the call aborts, and the record it returns
Resolution(cred, nrc, url) ==
    LET parsed == netrcParser(nrc)
    IN  [aborts |-> parsed.outcome = "panic",
         result |-> IF parsed.outcome = "panic"
                    THEN ZeroCredential
                    ELSE matchLoop(url, combine(credentialParser(cred),
                                                parsed.credentials))]

(***************************************************************************)
(* Properties.                                                             *)
(***************************************************************************)

\* a record applies to a target: its scope is empty or occurs in the target
Applies(target, r) ==
    \/ r.Path = << >>
    \/ \E k \in 1..Len(target) :
          /\ k + Len(r.Path) - 1 <= Len(target)
          /\ \A j \in 1..Len(r.Path) : target[k + j - 1] = r.Path[j]

\* the combined sequence of a call: the credentials-list records, then the
\* netrc records
Combined(c) == gitCreds[c] \o netrc[c].credentials

\* the first record of creds that applies to the target, the zero record
\* when none does
FirstApplicable(target, creds) ==
    IF \E i \in 1..Len(creds) : Applies(target, creds[i])
    THEN creds[CHOOSE i \in 1..Len(creds) :
                  /\ Applies(target, creds[i])
                  /\ \A j \in 1..(i - 1) : ~Applies(target, creds[j])]
    ELSE ZeroCredential

\* C1: whenever FindAuthForHost returns, it returns the first record of the
\* combined sequence (credentials-list records, then netrc records) whose
\* scope is empty or occurs in the target: every record before the
\* returned one does not apply.
C1_FirstApplicableReturned ==
    \A c \in Calls :
        pc[c] = "done" =>
            \A i \in 1..Len(Combined(c)) :
                (/\ Applies(baseUrl[c], Combined(c)[i])
                 /\ \A j \in 1..(i - 1) : ~Applies(baseUrl[c], Combined(c)[j]))
                => matchedCred[c] = Combined(c)[i]

\* C1 witness: a call has returned a default record (empty scope) that
\* stands before a record whose scope is a host of the target, after a
\* record that does not apply.
C1_Witness ==
    \E c \in Calls :
        /\ pc[c] = "done"
        /\ \E i, j \in 1..Len(Combined(c)) :
              /\ 1 < i /\ i < j
              /\ Combined(c)[i].Path = << >>
              /\ Combined(c)[j].Path # << >>
              /\ Applies(baseUrl[c], Combined(c)[j])
              /\ \A k \in 1..(i - 1) : ~Applies(baseUrl[c], Combined(c)[k])
              /\ matchedCred[c] = Combined(c)[i]
              /\ matchedCred[c] # Combined(c)[j]

\* C2: resolution never fails hard: whatever the netrc store holds,
\* netrcParser runs to the end of input and FindAuthForHost does not abort.
C2_NeverAborts == \A c \in Calls : pc[c] # "panic"

\* C3: when no record of the combined sequence has an empty scope or a
\* scope that occurs in the target, FindAuthForHost returns the zero
\* record, not a record of the sequence.
C3_NoMatchReturnsZero ==
    \A c \in Calls :
        (/\ pc[c] = "done"
         /\ \A i \in 1..Len(Combined(c)) : ~Applies(baseUrl[c], Combined(c)[i]))
        => matchedCred[c] = ZeroCredential

\* C3 witness: a call has returned while both stores gave records, none of
\* which applies to the target.
C3_Witness ==
    \E c \in Calls :
        /\ pc[c] = "done"
        /\ gitCreds[c] # << >>
        /\ netrc[c].credentials # << >>
        /\ \A i \in 1..Len(Combined(c)) : ~Applies(baseUrl[c], Combined(c)[i])
        /\ matchedCred[c] = ZeroCredential

\* a store that is absent or holds no byte
AbsentOrEmpty(store) == ~store.exists \/ store.data = << >>

\* the call is past credentialParser
PastCredentialParser(c) ==
    pc[c] \in {"openNetrc", "netrcParser", "netrcTokens", "match", "done", "panic"}

\* C4: an absent or empty store gives no record and no abort: its parser
\* returns the empty sequence, the other store is still read to its end,
\* and the result is the first applicable record of the other store's
\* records alone.
C4_AbsentOrEmptyStore ==
    \A c \in Calls :
        /\ (AbsentOrEmpty(credentialsStore) /\ PastCredentialParser(c))
           => gitCreds[c] = << >>
        /\ AbsentOrEmpty(netrcStore)
           => /\ pc[c] # "panic"
              /\ pc[c] \in {"match", "done"} => netrc[c].credentials = << >>
        /\ (AbsentOrEmpty(credentialsStore) /\ pc[c] = "done")
           => /\ netrcFile[c].unread = << >>
              /\ matchedCred[c] = FirstApplicable(baseUrl[c], netrc[c].credentials)
        /\ (AbsentOrEmpty(netrcStore) /\ pc[c] = "done")
           => /\ credentialsFile[c].unread = << >>
              /\ matchedCred[c] = FirstApplicable(baseUrl[c], gitCreds[c])

\* C4 witness: a call has returned a record of the credentials-list store
\* while the netrc store is absent.
C4_Witness ==
    \E c \in Calls :
        /\ pc[c] = "done"
        /\ ~netrcStore.exists
        /\ netrcFile[c].handle = "nil"
        /\ Len(gitCreds[c]) >= 2
        /\ matchedCred[c] \in {gitCreds[c][i] : i \in 1..Len(gitCreds[c])}

\* the netrc parser of the call is at work
InNetrcParser(c) == pc[c] \in {"netrcParser", "netrcTokens", "panic"}

\* 1 when the parser holds an in-progress record
InProgress(c) == IF netrc[c].activeMachine.nil THEN 0 ELSE 1

\* C5: one record for each machine or default keyword dispatched, in file
\* order: while the parser runs, the records flushed plus the in-progress
\* record are as many as the keywords dispatched; after the end of input
\* the records are as many as the keywords, in whatever state the input
\* ended; and the i-th record is the one of the i-th keyword (a record of
\* a default keyword has the empty scope).
C5_OneRecordPerKeyword ==
    \A c \in Calls :
        /\ InNetrcParser(c)
           => Len(netrc[c].credentials) + InProgress(c) = Len(dispatched[c])
        /\ pc[c] \in {"match", "done"}
           => Len(netrc[c].credentials) = Len(dispatched[c])
        /\ \A i \in 1..Len(netrc[c].credentials) :
              /\ i <= Len(dispatched[c])
              /\ dispatched[c][i] = Default => netrc[c].credentials[i].Path = << >>

\* C5 witness: the input ended inside a macro, after two keywords, and
\* both records were returned.
C5_Witness ==
    \E c \in Calls :
        /\ pc[c] = "done"
        /\ netrc[c].activeMacro
        /\ Len(dispatched[c]) = 2
        /\ Len(netrc[c].credentials) = 2

\* the call reads a line while a macro is active
ReadsMacroLine(c) ==
    /\ pc[c] = "netrcParser"
    /\ netrc[c].activeMacro
    /\ netrcFile'[c].unread # netrcFile[c].unread

\* the call loops over the token at the head of the line without a panic
TakesToken(c) ==
    /\ pc[c] = "netrcTokens"
    /\ tokens'[c] # tokens[c]

\* the record appendNetrcMachine makes of an in-progress record
RecordOf(machine) ==
    Credential(MapGet(machine, Machine), MapGet(machine, Login),
               MapGet(machine, Password))

\* C6: in Macro-skip every line up to and including the first blank line
\* is discarded without creating, flushing or changing any record, and at
\* that blank line the parser is back in Scanning with no pending command,
\* so that the first token after it is dispatched as a keyword.
C6_MacroSkipEndsWithNoPendingCommand ==
    [][\A c \in Calls :
         ReadsMacroLine(c) =>
            /\ netrc'[c].credentials = netrc[c].credentials
            /\ netrc'[c].activeMachine = netrc[c].activeMachine
            /\ tokens'[c] = tokens[c]
            /\ IF ScanLine(netrcFile[c].unread).text = << >>
               THEN ~netrc'[c].activeMacro /\ netrc'[c].activeCommand = << >>
               ELSE netrc'[c].activeMacro]_vars

\* C7: a command awaiting a value (machine, login, password, account)
\* whose next token is the keyword machine or default leaves its field as
\* it was, and the keyword flushes the in-progress record and starts a new
\* one.
C7_KeywordEndsPendingCommand ==
    [][\A c \in Calls :
         (/\ TakesToken(c)
          /\ netrc[c].activeCommand \in {Machine, Login, Password, Account}
          /\ Head(tokens[c]) \in {Machine, Default})
         => /\ netrc'[c].credentials =
                  Append(netrc[c].credentials, RecordOf(netrc[c].activeMachine))
            /\ netrc'[c].activeMachine =
                  IF Head(tokens[c]) = Machine
                  THEN EmptyMap
                  ELSE MapSet(EmptyMap, Machine, << >>)
            /\ dispatched'[c] = Append(dispatched[c], Head(tokens[c]))]_vars

\* the login and password of the netrc text "default login an password an"
An ==
    << "a", "n" >>

DefaultLoginPassword ==
    << "d", "e", "f", "a", "u", "l", "t", " ", "l", "o", "g", "i", "n",
       " ", "a", "n", " ", "p", "a", "s", "s", "w", "o", "r", "d", " ",
       "a", "n" >>

\* C8: the default keyword, when dispatched, flushes the in-progress
\* record if one exists and starts a new record whose scope is empty and
\* which holds nothing else; no command is left pending, so the token after
\* default is dispatched as a keyword; and the netrc text "default login an
\* password an" yields exactly the record (scope "", username an, password
\* an).
C8_DefaultStartsEmptyScope ==
    /\ [][\A c \in Calls :
            (/\ TakesToken(c)
             /\ netrc[c].activeCommand = << >>
             /\ Head(tokens[c]) = Default)
            => /\ netrc'[c].credentials =
                     IF netrc[c].activeMachine.nil
                     THEN netrc[c].credentials
                     ELSE Append(netrc[c].credentials,
                                 RecordOf(netrc[c].activeMachine))
               /\ ~netrc'[c].activeMachine.nil
               /\ netrc'[c].activeMachine.kv = {<< Machine, << >> >>}
               /\ netrc'[c].activeCommand = << >>
               /\ tokens'[c] = Tail(tokens[c])]_vars
    /\ [](\A c \in Calls :
            (/\ pc[c] \in {"match", "done"}
             /\ netrcStore = StoreOf(DefaultLoginPassword))
            => netrc[c].credentials = << Credential(<< >>, An, An) >>)

\* C8 witness: a call has returned two netrc records; the second is the
\* one a default keyword started after flushing the first, and it holds a
\* username that a login keyword after default gave it.
C8_Witness ==
    \E c \in Calls :
        /\ pc[c] = "done"
        /\ Len(netrc[c].credentials) = 2
        /\ dispatched[c] = << Machine, Default >>
        /\ netrc[c].credentials[1].Path # << >>
        /\ netrc[c].credentials[2].Path = << >>
        /\ netrc[c].credentials[2].Username # << >>

\* C9: whenever FindAuthForHost returns and a credentials-list record
\* applies to the target, the result is the first credentials-list record
\* that applies, whatever records the netrc store gave.
C9_ListStoreFirst ==
    \A c \in Calls :
        (/\ pc[c] = "done"
         /\ \E i \in 1..Len(gitCreds[c]) : Applies(baseUrl[c], gitCreds[c][i]))
        => matchedCred[c] = FirstApplicable(baseUrl[c], gitCreds[c])

\* C9 witness: a call has returned the second credentials-list record
\* while the netrc store gave a record for the same host with another
\* username and a default record.
C9_Witness ==
    \E c \in Calls :
        /\ pc[c] = "done"
        /\ Len(gitCreds[c]) = 2
        /\ ~Applies(baseUrl[c], gitCreds[c][1])
        /\ matchedCred[c] = gitCreds[c][2]
        /\ \E i, j \in 1..Len(netrc[c].credentials) :
              /\ netrc[c].credentials[i].Path = gitCreds[c][2].Path
              /\ netrc[c].credentials[i].Username # gitCreds[c][2].Username
              /\ netrc[c].credentials[j].Path = << >>

\* the lines of the credentials-list store, none when it is absent
CredentialLines ==
    IF credentialsStore.exists THEN ScanAll(credentialsStore.data) ELSE << >>

\* a line parses as a URL with a host
HasHost(line) == ~ParseURL(line).err /\ ParseURL(line).Host # << >>

\* the records of the lines that parse as a URL with a host, in line order
RECURSIVE RecordsOfLines(_)
RecordsOfLines(lines) ==
    IF lines = << >>
    THEN << >>
    ELSE (IF HasHost(Head(lines))
          THEN << Credential(ParseURL(Head(lines)).Host,
                             ParseURL(Head(lines)).Username,
                             ParseURL(Head(lines)).Password) >>
          ELSE << >>)
         \o RecordsOfLines(Tail(lines))

\* C10: credentialParser returns exactly the records of the lines that
\* parse as a URL with a host, in line order; a line that does not parse
\* or has no host gives no record and leaves the lines after it to be
\* parsed.
C10_RecordsOfHostLines ==
    \A c \in Calls :
        PastCredentialParser(c) => gitCreds[c] = RecordsOfLines(CredentialLines)

\* C10 witness: a call has returned from credentialParser with two records
\* of a store of three lines, the second of which does not parse.
C10_Witness ==
    \E c \in Calls :
        /\ PastCredentialParser(c)
        /\ Len(CredentialLines) = 3
        /\ ParseURL(CredentialLines[2]).err
        /\ Len(gitCreds[c]) = 2
        /\ gitCreds[c][1] # gitCreds[c][2]

\* the call is past netrcParser: it returned or it panicked
PastNetrcParser(c) == pc[c] \in {"match", "done", "panic"}

\* a handle that holds no open file
Released(file) == file.handle \in {"closed", "nil"}

\* C11: each parser closes its stream exactly once, on every way out (end
\* of input, or the panic of netrcParser partway through the text) and not
\* before; the credentials-list stream is closed before the netrc stream
\* is opened; and no handle is open once FindAuthForHost has returned or
\* has been left by the panic.
C11_HandlesReleased ==
    \A c \in Calls :
        /\ credentialsFile[c].closes = IF PastCredentialParser(c) THEN 1 ELSE 0
        /\ netrcFile[c].closes = IF PastNetrcParser(c) THEN 1 ELSE 0
        /\ PastCredentialParser(c) => Released(credentialsFile[c])
        /\ netrcFile[c].handle # "unopened" => Released(credentialsFile[c])
        /\ PastNetrcParser(c) => Released(netrcFile[c])
        /\ pc[c] = "credentialParser" /\ credentialsStore.exists
           => credentialsFile[c].handle = "open"
        /\ InNetrcParser(c) /\ pc[c] # "panic" /\ netrcStore.exists
           => netrcFile[c].handle = "open"

\* C11 witness: netrcParser was left by a panic with text still unread;
\* both stores exist, and both streams are closed, each once.
C11_Witness ==
    \E c \in Calls :
        /\ pc[c] = "panic"
        /\ netrcFile[c].unread # << >>
        /\ credentialsFile[c].handle = "closed"
        /\ netrcFile[c].handle = "closed"
        /\ credentialsFile[c].closes = 1
        /\ netrcFile[c].closes = 1

\* C12: a call that returns, returns the record that is the function of
\* the target and the two stores; a second call made with the same target
\* after the first has returned, the stores unmodified, returns the same
\* record from the same two record lists; and each parser of a call starts
\* from its initial locals, whatever an earlier call has left.
C12_SuccessiveCallsAgree ==
    /\ \A c \in Calls :
          /\ pc[c] = "done"
             => matchedCred[c] =
                   Resolution(credentialsStore, netrcStore, baseUrl[c]).result
          /\ (/\ pc[c] = "credentialParser"
              /\ credentialsFile[c].unread = credentialsStore.data)
             => gitCreds[c] = << >>
          /\ (/\ pc[c] = "netrcParser"
              /\ netrcFile[c].unread = netrcStore.data)
             => netrc[c] = NetrcLocals
    /\ (pc[1] = "done" /\ pc[2] = "done")
       => /\ matchedCred[2] = matchedCred[1]
          /\ gitCreds[2] = gitCreds[1]
          /\ netrc[2].credentials = netrc[1].credentials

\* C12 witness: the second call has returned, after the first, a record
\* other than the zero record, and both stores gave it records.
C12_Witness ==
    /\ pc[1] = "done"
    /\ pc[2] = "done"
    /\ matchedCred[2] # ZeroCredential
    /\ gitCreds[2] # << >>
    /\ netrc[2].credentials # << >>

\* C13: with two calls running at once against the same stores, their
\* steps interleaved in any order, each call that returns, returns the
\* record and has parsed the record lists that a call alone returns and
\* parses, which are the functions of the target and the stores; a call
\* aborts only where a call alone aborts.
C13_ConcurrentCallsAsAlone ==
    \A c \in Calls :
        /\ pc[c] = "done"
           => /\ matchedCred[c] =
                    Resolution(credentialsStore, netrcStore, baseUrl[c]).result
              /\ gitCreds[c] = credentialParser(credentialsStore)
              /\ netrc[c].credentials = netrcParser(netrcStore).credentials
        /\ pc[c] = "panic"
           => Resolution(credentialsStore, netrcStore, baseUrl[c]).aborts

\* C13 witness: two calls run at once; the first has returned a record of
\* the netrc store while the second is in the token loop of netrcParser
\* with a record in progress and fewer records than the first.
C13_Witness ==
    /\ pc[1] = "done"
    /\ matchedCred[1] # ZeroCredential
    /\ matchedCred[1] \in {netrc[1].credentials[i] :
                               i \in 1..Len(netrc[1].credentials)}
    /\ pc[2] = "netrcTokens"
    /\ ~netrc[2].activeMachine.nil
    /\ Len(netrc[2].credentials) < Len(netrc[1].credentials)

\* a character that keeps tokens apart
IsGap(ch) == ch \in {" ", "\t", "\n"}

\* the text with every run of spaces, tabs and line breaks between two
\* tokens replaced by one space, and none before the first token or after
\* the last
RECURSIVE SingleSpacedFrom(_)
SingleSpacedFrom(s) ==
    IF s = << >>
    THEN << >>
    ELSE IF ~IsGap(Head(s))
         THEN << Head(s) >> \o SingleSpacedFrom(Tail(s))
         ELSE IF Tail(s) = << >> \/ IsGap(Head(Tail(s)))
              THEN SingleSpacedFrom(Tail(s))
              ELSE << " " >> \o SingleSpacedFrom(Tail(s))

SingleSpaced(s) ==
    LET r == SingleSpacedFrom(s)
    IN  IF r # << >> /\ Head(r) = " " THEN Tail(r) ELSE r

\* the netrc text has no comment and no macro
PlainTokens(data) == ~Contains(data, << "#" >>) /\ ~Contains(data, Macdef)

\* C14: netrc tokens are whitespace-delimited: the records parsed from a
\* text without macro and comment are the records of the same tokens one
\* space apart, whether the text keeps them apart by several spaces, tabs,
\* both, or line breaks and blank lines; so "machine", two spaces,
\* "foo.com" gives a record with scope foo.com.
C14_WhitespaceDelimited ==
    \A c \in Calls :
        (/\ pc[c] \in {"match", "done"}
         /\ netrcStore.exists
         /\ PlainTokens(netrcStore.data))
        => netrc[c].credentials =
              netrcParser(StoreOf(SingleSpaced(netrcStore.data))).credentials

\* a netrc text whose password keyword ends a line and is followed by a
\* token starting with #
HashValueLayout ==
    << "m", "a", "c", "h", "i", "n", "e", " ", "f", "o", "o", ".", "c",
       "o", "m", " ", "p", "a", "s", "s", "w", "o", "r", "d", "\n", "#",
       "x", " ", "l", "o", "g", "i", "n", " ", "a", "l", "\n" >>

\* a netrc text with two comments
CommentLayout ==
    << "m", "a", "c", "h", "i", "n", "e", " ", "f", "o", "o", ".", "c",
       "o", "m", " ", "#", " ", "l", "o", "g", "i", "n", " ", "a", "l",
       "\n", "p", "a", "s", "s", "w", "o", "r", "d", " ", "s", "3", " ",
       "#", "c", " ", "m", "a", "c", "h", "i", "n", "e", " ", "e", "x",
       ".", "i", "o", "\n" >>

FooCom ==
    << "f", "o", "o", ".", "c", "o", "m" >>

Al ==
    << "a", "l" >>

S3 ==
    << "s", "3" >>

HashX ==
    << "#", "x" >>

\* C15: the token loop tests for a pending value first, then for a comment,
\* then for a keyword.  A token starting with # taken while a command is
\* pending is stored as that command's value, ends the pending command and
\* leaves the rest of the line to be looped over; taken while no command
\* is pending it changes nothing of the parser's locals and ends the line,
\* so that the scan goes on with the next line.  The text "machine foo.com
\* password", line break, "#x login al" gives the record (foo.com, al,
\* #x), and in the text of two comments the tokens after each # have no
\* effect while "password s3" at the start of the second line has.
C15_ValueThenCommentThenKeyword ==
    /\ [][\A c \in Calls :
            (TakesToken(c) /\ HasPrefix(Head(tokens[c]), << "#" >>))
            => IF netrc[c].activeCommand # << >>
               THEN /\ netrc'[c].activeMachine =
                          MapSet(netrc[c].activeMachine, netrc[c].activeCommand,
                                 Head(tokens[c]))
                    /\ netrc'[c].activeCommand = << >>
                    /\ netrc'[c].activeMacro = netrc[c].activeMacro
                    /\ netrc'[c].credentials = netrc[c].credentials
                    /\ tokens'[c] = Tail(tokens[c])
               ELSE /\ netrc'[c] = netrc[c]
                    /\ tokens'[c] = << >>
                    /\ pc'[c] = "netrcParser"]_vars
    /\ [](\A c \in Calls :
            pc[c] \in {"match", "done"}
            => /\ netrcStore = StoreOf(HashValueLayout)
                  => netrc[c].credentials = << Credential(FooCom, Al, HashX) >>
               /\ netrcStore = StoreOf(CommentLayout)
                  => netrc[c].credentials = << Credential(FooCom, << >>, S3) >>)

\* C15 witness: a call has returned a record whose password is a token
\* starting with #, taken as the first token of a line, and whose username
\* was given by the tokens after it on that line.
C15_Witness ==
    \E c \in Calls :
        /\ pc[c] = "done"
        /\ netrcStore = StoreOf(HashValueLayout)
        /\ \E i \in 1..Len(netrc[c].credentials) :
              /\ HasPrefix(netrc[c].credentials[i].Password, << "#" >>)
              /\ netrc[c].credentials[i].Username = Al

\* a netrc text whose machine keyword is followed by two spaces
EmptyHostLayout ==
    << "m", "a", "c", "h", "i", "n", "e", " ", " ", "f", "o", "o", ".",
       "c", "o", "m", " ", "l", "o", "g", "i", "n", " ", "a", "l", "\n" >>

\* C16: a machine keyword that gets no host gives a record of empty
\* scope.  When the input ends with the machine keyword still pending, the
\* last record returned is the record of empty scope, username and
\* password; when the token taken as the value of machine is empty, the
\* in-progress record has the empty scope, and the text "machine", two
\* spaces, "foo.com login al" gives exactly the record ("", al, "").  The
\* matcher returns a record of empty scope for every target when no record
\* before it applies, whichever keyword started it.
C16_MachineWithoutHost ==
    /\ [][\A c \in Calls :
            (/\ TakesToken(c)
             /\ netrc[c].activeCommand = Machine
             /\ Head(tokens[c]) = << >>)
            => /\ RecordOf(netrc'[c].activeMachine).Path = << >>
               /\ netrc'[c].activeCommand = << >>
               /\ netrc'[c].credentials = netrc[c].credentials]_vars
    /\ [](\A c \in Calls :
            /\ (pc[c] \in {"match", "done"} /\ netrc[c].activeCommand = Machine)
               => /\ netrc[c].credentials # << >>
                  /\ netrc[c].credentials[Len(netrc[c].credentials)] =
                        Credential(<< >>, << >>, << >>)
            /\ (pc[c] \in {"match", "done"}
                /\ netrcStore = StoreOf(EmptyHostLayout))
               => netrc[c].credentials = << Credential(<< >>, Al, << >>) >>
            /\ pc[c] = "done"
               => \A i \in 1..Len(Combined(c)) :
                     (/\ Combined(c)[i].Path = << >>
                      /\ \A j \in 1..(i - 1) :
                            ~Applies(baseUrl[c], Combined(c)[j]))
                     => matchedCred[c] = Combined(c)[i])

\* C16 witness: a call has returned, for a target that names neither
\* foo.com nor any host of the store, the record of a machine keyword whose
\* value was the empty token; no default keyword was dispatched.
C16_Witness ==
    \E c \in Calls :
        /\ pc[c] = "done"
        /\ baseUrl[c] = TargetNone
        /\ dispatched[c] = << Machine >>
        /\ netrc[c].credentials = << Credential(<< >>, Al, << >>) >>
        /\ matchedCred[c] = Credential(<< >>, Al, << >>)

\* C17: every step of a call leaves the records already flushed as they
\* are: the netrc output either stays or gets one record at its end, which
\* is the record of the in-progress entries at that step; and a token
\* taken as a value is written to the in-progress record alone.
C17_FlushedRecordsKept ==
    [][\A c \in Calls :
         LET old == netrc[c].credentials
             new == netrc'[c].credentials
         IN  /\ Len(new) \in {Len(old), Len(old) + 1}
             /\ SubSeq(new, 1, Len(old)) = old
             /\ Len(new) = Len(old) + 1
                => /\ ~netrc[c].activeMachine.nil
                   /\ new[Len(new)] = RecordOf(netrc[c].activeMachine)
             /\ (TakesToken(c) /\ netrc[c].activeCommand # << >>)
                => /\ new = old
                   /\ netrc'[c].activeMachine =
                         MapSet(netrc[c].activeMachine, netrc[c].activeCommand,
                                Head(tokens[c]))]_vars

\* C17 witness: with one record flushed, a later block has been given a
\* username and a password, neither of them the flushed record's.
C17_Witness ==
    \E c \in Calls :
        /\ InNetrcParser(c)
        /\ Len(netrc[c].credentials) = 1
        /\ ~netrc[c].activeMachine.nil
        /\ RecordOf(netrc[c].activeMachine).Username
              \notin {<< >>, netrc[c].credentials[1].Username}
        /\ RecordOf(netrc[c].activeMachine).Password
              \notin {<< >>, netrc[c].credentials[1].Password}
        /\ netrc[c].credentials[1].Username # << >>

\* the tokens of the switch of lines 217-238
Keywords == {Machine, Macdef, Login, Password, Account, Default}

\* the text without its leading spaces, tabs and line breaks
RECURSIVE DropGaps(_)
DropGaps(s) == IF s # << >> /\ IsGap(Head(s)) THEN DropGaps(Tail(s)) ELSE s

\* the text without its leading token
RECURSIVE DropToken(_)
DropToken(s) == IF s # << >> /\ ~IsGap(Head(s)) THEN DropToken(Tail(s)) ELSE s

\* the text without every word account that starts a token, the token
\* after it, and the spaces, tabs and line breaks after each of the two
RECURSIVE WithoutAccountFrom(_, _)
WithoutAccountFrom(s, boundary) ==
    IF s = << >>
    THEN << >>
    ELSE IF /\ boundary
            /\ HasPrefix(s, Account)
            /\ Len(s) > Len(Account)
            /\ IsGap(s[Len(Account) + 1])
         THEN WithoutAccountFrom(
                  DropGaps(DropToken(DropGaps(
                      SubSeq(s, Len(Account) + 1, Len(s))))), TRUE)
         ELSE << Head(s) >> \o WithoutAccountFrom(Tail(s), IsGap(Head(s)))

WithoutAccountPairs(s) == WithoutAccountFrom(s, TRUE)

\* the netrc layouts with account keywords, each followed by its value
AccountLayouts == {d \in NetrcLayouts : Contains(d, Account)}

\* C18: the account keyword, dispatched, only makes account the pending
\* command; the next token taken is its value, whatever it is: that step
\* ends the pending command, takes exactly that token, and leaves the
\* flushed records, the macro flag and the scope, username and password of
\* the in-progress record as they were.  A token that is no keyword, taken
\* with no command pending, changes none of the parser's locals.  And a
\* text with account keywords gives the records of the text without those
\* keywords and their values.
C18_AccountLeavesRecords ==
    /\ [][\A c \in Calls :
            /\ (/\ TakesToken(c)
                /\ netrc[c].activeCommand = << >>
                /\ Head(tokens[c]) = Account)
               => /\ netrc'[c] = [netrc[c] EXCEPT !.activeCommand = Account]
                  /\ tokens'[c] = Tail(tokens[c])
            /\ (TakesToken(c) /\ netrc[c].activeCommand = Account)
               => /\ netrc'[c].activeCommand = << >>
                  /\ netrc'[c].activeMacro = netrc[c].activeMacro
                  /\ netrc'[c].credentials = netrc[c].credentials
                  /\ RecordOf(netrc'[c].activeMachine) =
                        RecordOf(netrc[c].activeMachine)
                  /\ tokens'[c] = Tail(tokens[c])
            /\ (/\ TakesToken(c)
                /\ netrc[c].activeCommand = << >>
                /\ Head(tokens[c]) \notin Keywords)
               => netrc'[c] = netrc[c]]_vars
    /\ [](\A c \in Calls :
            (pc[c] \in {"match", "done"} /\ netrcStore.exists
             /\ netrcStore.data \in AccountLayouts)
            => netrc[c].credentials =
                  netrcParser(StoreOf(WithoutAccountPairs(netrcStore.data)))
                      .credentials)

\* C18 witness: a call has returned two records from a text with two
\* account keywords; the value of the first stood on the next line, the
\* value of the second started with #, and the login after it gave the
\* second record its username.
C18_Witness ==
    \E c \in Calls :
        /\ pc[c] = "done"
        /\ netrcStore.data \in AccountLayouts
        /\ HasPrefix(MapGet(netrc[c].activeMachine, Account), << "#" >>)
        /\ Len(netrc[c].credentials) = 2
        /\ netrc[c].credentials[2].Username = Al
        /\ WithoutAccountPairs(netrcStore.data) # netrcStore.data

\* C19: every record of credentialParser has a scope that is not empty;
\* so a record of empty scope in the combined sequence stands after every
\* credentials-list record, among the netrc records; and when a
\* credentials-list record applies to the target, the record returned is a
\* credentials-list record and not a record of empty scope.
C19_DefaultNeverShadowsList ==
    \A c \in Calls :
        /\ \A i \in 1..Len(gitCreds[c]) : gitCreds[c][i].Path # << >>
        /\ \A i \in 1..Len(Combined(c)) :
              Combined(c)[i].Path = << >>
              => /\ i > Len(gitCreds[c])
                 /\ Combined(c)[i] = netrc[c].credentials[i - Len(gitCreds[c])]
        /\ (/\ pc[c] = "done"
            /\ \E i \in 1..Len(gitCreds[c]) : Applies(baseUrl[c], gitCreds[c][i]))
           => /\ matchedCred[c].Path # << >>
              /\ \E i \in 1..Len(gitCreds[c]) : matchedCred[c] = gitCreds[c][i]

\* C19 witness: a call has returned the one credentials-list record, which
\* applies to the target, while the netrc store gave as its first record
\* the record of a default keyword with a username; and the credentials
\* list holds a line without host besides the line of the record.
C19_Witness ==
    \E c \in Calls :
        /\ pc[c] = "done"
        /\ Len(CredentialLines) = 2
        /\ Len(gitCreds[c]) = 1
        /\ Applies(baseUrl[c], gitCreds[c][1])
        /\ matchedCred[c] = gitCreds[c][1]
        /\ netrc[c].credentials # << >>
        /\ dispatched[c][1] = Default
        /\ netrc[c].credentials[1].Path = << >>
        /\ netrc[c].credentials[1].Username # << >>

====
